---- MODULE Spec2Model ----
(***************************************************************************)
(* Persistence core of the FTL DNS daemon (src/database.c): the in-memory  *)
(* query log, the SQLite long-term store, the write-back (save_to_DB),     *)
(* the retention collector (delete_old_queries_in_DB), the startup import  *)
(* (read_data_from_DB) and the scheduler thread (DB_thread).               *)
(*                                                                         *)
(* Every SQLite call of a handler is given its return code as an input of  *)
(* the handler's action, so each error path of the code is a transition.   *)
(***************************************************************************)
EXTENDS Integers, Sequences, FiniteSets, TLC

(* ------------------------------------------------------------------ *)
(* Bounds of the model                                                *)
(* ------------------------------------------------------------------ *)
\* the in-memory log holds at most this many records
MaxQueries == 3
\* the wall clock advances at most this many seconds past StartTime
MaxTicks == 2
\* the store file holds at most this many rows when the process starts
MaxInitRows == 2
\* at most this many SQLite calls fail in one run; the failed insertions of
\* one flush count as one
MaxFaults == 2
\* a process is restarted at most MaxBoots times
MaxBoots == 1

(* ------------------------------------------------------------------ *)
(* Program constants (FTL.h and sqlite3.h, as used by database.c)     *)
(* ------------------------------------------------------------------ *)
SQLITE_OK == 0
SQLITE_ERROR == 1
SQLITE_BUSY == 5
SQLITE_MISUSE == 21
SQLITE_ROW == 100
SQLITE_DONE == 101

DB_FAILED == -2
DB_NODATA == -1

PRIVACY_SHOW_ALL == 0
PRIVACY_MAXIMUM == 3
PRIVACY_NOSTATS == 4

TYPE_A == 1
TYPE_AAAA == 2
TYPE_MAX == 8

QUERY_UNKNOWN == 0
QUERY_GRAVITY == 1
QUERY_FORWARDED == 2
QUERY_CACHE == 3
QUERY_WILDCARD == 4
QUERY_BLACKLIST == 5
QUERY_EXTERNAL_BLOCKED_IP == 6
QUERY_EXTERNAL_BLOCKED_NULL == 7
QUERY_EXTERNAL_BLOCKED_NXRA == 8

\* 01/01/2017 @ 12:00am (UTC)
MinTimestamp == 1483228800
\* seconds of a day, the unit of config.maxDBdays
SecondsPerDay == 86400
\* age below which an incomplete query is left for the next flush
GraceSeconds == 2
\* number of failed insertions at which a flush stops scanning
MaxSaveErrors == 3

(* ------------------------------------------------------------------ *)
(* Configuration values of the modelled run (struct config)           *)
(* ------------------------------------------------------------------ *)
maxDBdays == 1
maxlogage == 86400

\* the wall clock when the process starts
StartTime == MinTimestamp + 100000000

\* a NULL column / NULL string
Null == "<NULL>"

VARIABLES
    now,                \* time(NULL)
    phase,              \* main thread: "boot" (before the import), "run", "crashed"
    config,             \* config.privacylevel, analyze_AAAA, ignore_localhost
    queries,            \* queries[0 .. counters->queries-1], as a sequence
    domains,            \* interned domain strings, with blockedcount
    clients,            \* interned client strings, with their counters
    forwarded,          \* interned forward destinations
    agg,                \* counters-> and overTime[] aggregates
    lastdbindex,        \* the watermark cursor
    database,           \* the process-wide persistence flag
    DBdeleteoldqueries, \* "collection requested"
    lastDBsave,         \* DB_thread's aligned wake timestamp
    dbpc,               \* DB_thread's position
    shmlock,            \* holder of lock_shm(), "none" when free
    rows,               \* table queries of the store (committed rows)
    seq,                \* sqlite_sequence.seq of table queries (AUTOINCREMENT)
    dbcounters,         \* table counters of the store
    ftl,                \* table ftl of the store (properties)
    last,               \* history: what the last operation did
    hist                \* history: committed insertions (per record, in all),
                        \* failed SQLite calls, the records as they were
                        \* when inserted, the memory of the process before

vars == << now, phase, config, queries, domains, clients, forwarded, agg,
           lastdbindex, database, DBdeleteoldqueries, lastDBsave, dbpc,
           shmlock, rows, seq, dbcounters, ftl, last, hist >>

memvars == << queries, domains, clients, forwarded, agg >>
storevars == << rows, seq, dbcounters, ftl >>

(* ------------------------------------------------------------------ *)
(* Small helpers                                                      *)
(* ------------------------------------------------------------------ *)
MAX(a, b) == IF a > b THEN a ELSE b

SetMax(S) == CHOOSE x \in S : \A y \in S : y <= x

RECURSIVE SetToSeq(_)
\* the elements of a set of rows, in ascending id order
SetToSeq(S) ==
    IF S = {} THEN << >>
    ELSE LET r == CHOOSE x \in S : \A y \in S : x.id <= y.id
         IN  << r >> \o SetToSeq(S \ {r})

RECURSIVE Ascending(_)
\* the elements of a set of integers, in ascending order
Ascending(S) ==
    IF S = {} THEN << >>
    ELSE LET x == CHOOSE a \in S : \A b \in S : a <= b
         IN  << x >> \o Ascending(S \ {x})

RECURSIVE ByTimestamp(_)
\* the elements of a set of rows, in ascending order of timestamp, then id
ByTimestamp(S) ==
    IF S = {} THEN << >>
    ELSE LET r == CHOOSE x \in S : \A y \in S :
                      \/ x.timestamp < y.timestamp
                      \/ x.timestamp = y.timestamp /\ x.id <= y.id
         IN  << r >> \o ByTimestamp(S \ {r})

\* C index i (0-based) of the sequence q
At(q, i) == q[i + 1]

IsBlocked(status) ==
    \/ status = QUERY_GRAVITY
    \/ status = QUERY_BLACKLIST
    \/ status = QUERY_WILDCARD
    \/ status = QUERY_EXTERNAL_BLOCKED_IP
    \/ status = QUERY_EXTERNAL_BLOCKED_NULL
    \/ status = QUERY_EXTERNAL_BLOCKED_NXRA

(* ------------------------------------------------------------------ *)
(* The shared in-memory log and its aggregates                        *)
(* ------------------------------------------------------------------ *)
\* overTime slot of a timestamp: one slot per ten minutes
getOverTimeID(ts) == ts \div 600

ZeroSlot == [ total |-> 0, blocked |-> 0, forwarded |-> 0, cached |-> 0,
              querytypedata |-> << >> ]

\* f[k], or d where f has no entry k
Get(f, k, d) == IF k \in DOMAIN f THEN f[k] ELSE d

\* f with entry k set to v (added when missing)
Put(f, k, v) == [ x \in (DOMAIN f) \cup {k} |-> IF x = k THEN v ELSE f[x] ]

\* f with counter k incremented
Inc(f, k) == Put(f, k, Get(f, k, 0) + 1)

EmptyAgg == [ querytype |-> << >>, unknown |-> 0, blocked |-> 0,
              forwardedqueries |-> 0, cached |-> 0, overTime |-> << >> ]

\* index (0-based) of string s in the intern table t, Len(t) when it is new
FindID(t, s) ==
    IF \E i \in 1..Len(t) : t[i].name = s
    THEN (CHOOSE i \in 1..Len(t) : t[i].name = s) - 1
    ELSE Len(t)

\* findDomainID: the domain's ID, interning it when new
findDomainID(t, s) ==
    IF FindID(t, s) < Len(t) THEN t
    ELSE Append(t, [ name |-> s, blockedcount |-> 0 ])

\* findClientID: the client's ID, interning it when new
findClientID(t, s) ==
    IF FindID(t, s) < Len(t) THEN t
    ELSE Append(t, [ name |-> s, blockedcount |-> 0, lastQuery |-> 0,
                      numQueriesARP |-> 0, overTime |-> << >> ])

\* findForwardID: the forward destination's ID, interning it when new
findForwardID(t, s) ==
    IF FindID(t, s) < Len(t) THEN t
    ELSE Append(t, [ name |-> s ])

\* getDomainString(i): the domain string of query record q
getDomainString(q, doms) == doms[q.domainID + 1].name

\* getClientIPString(i): the client string of query record q
getClientIPString(q, clis) == clis[q.clientID + 1].name

\* the type counters of one query (counters->querytype, overTime[].querytypedata)
CountType(a, timeidx, type) ==
    IF type >= TYPE_A /\ type < TYPE_MAX
    THEN LET slot == Get(a.overTime, timeidx, ZeroSlot)
         IN  [ a EXCEPT !.querytype = Inc(a.querytype, type - 1),
                        !.overTime = Put(a.overTime, timeidx,
                            [ slot EXCEPT !.querytypedata =
                                              Inc(slot.querytypedata, type - 1) ]) ]
    ELSE a

\* overTime[timeidx].total++
CountTotal(a, timeidx) ==
    LET slot == Get(a.overTime, timeidx, ZeroSlot)
    IN  [ a EXCEPT !.overTime = Put(a.overTime, timeidx,
                                    [ slot EXCEPT !.total = slot.total + 1 ]) ]

\* the status counters of one query (the switch over status)
CountStatus(a, timeidx, status) ==
    LET slot == Get(a.overTime, timeidx, ZeroSlot)
    IN  IF status = QUERY_UNKNOWN
        THEN [ a EXCEPT !.unknown = a.unknown + 1 ]
        ELSE IF IsBlocked(status)
        THEN [ a EXCEPT !.blocked = a.blocked + 1,
                        !.overTime = Put(a.overTime, timeidx,
                            [ slot EXCEPT !.blocked = slot.blocked + 1 ]) ]
        ELSE IF status = QUERY_FORWARDED
        THEN [ a EXCEPT !.forwardedqueries = a.forwardedqueries + 1,
                        !.overTime = Put(a.overTime, timeidx,
                            [ slot EXCEPT !.forwarded = slot.forwarded + 1 ]) ]
        ELSE IF status = QUERY_CACHE
        THEN [ a EXCEPT !.cached = a.cached + 1,
                        !.overTime = Put(a.overTime, timeidx,
                            [ slot EXCEPT !.cached = slot.cached + 1 ]) ]
        ELSE a

\* the per-client counters of one query
CountClient(clis, clientID, timeidx, ts, status) ==
    [ clis EXCEPT ![clientID + 1] =
        [ @ EXCEPT !.lastQuery = ts,
                   !.numQueriesARP = @ + 1,
                   !.overTime = Inc(@, timeidx),
                   !.blockedcount = IF IsBlocked(status) THEN @ + 1 ELSE @ ] ]

\* the per-domain counters of one query
CountDomain(doms, domainID, status) ==
    [ doms EXCEPT ![domainID + 1] =
        [ @ EXCEPT !.blockedcount = IF IsBlocked(status) THEN @ + 1 ELSE @ ] ]

\* the six stored fields of query record q, read off the memory
Describe(q, doms, clis, fwds) ==
    << q.timestamp, q.type, q.status, doms[q.domainID + 1].name,
       clis[q.clientID + 1].name,
       IF q.status = QUERY_FORWARDED /\ q.forwardID > -1
       THEN fwds[q.forwardID + 1].name ELSE Null >>

\* a picture of the memory of a process: its records by their stored fields,
\* and its counters (per domain and per client by name)
Snapshot(q, doms, clis, fwds, a) ==
    [ views   |-> [ i \in 1..Len(q) |-> Describe(q[i], doms, clis, fwds) ],
      agg     |-> a,
      domains |-> { << d.name, d.blockedcount >> : d \in
                      { doms[i] : i \in 1..Len(doms) } },
      clients |-> { << c.name, c.blockedcount, c.numQueriesARP, c.overTime >> :
                      c \in { clis[i] : i \in 1..Len(clis) } } ]

(* ------------------------------------------------------------------ *)
(* The store                                                          *)
(* ------------------------------------------------------------------ *)
\* check_database: every result but OK, DONE, ROW and BUSY disables the database
check_database(flag, rc) ==
    IF rc # SQLITE_OK /\ rc # SQLITE_DONE /\ rc # SQLITE_ROW /\ rc # SQLITE_BUSY
    THEN FALSE
    ELSE flag

\* SELECT MAX(ID) FROM queries, read with sqlite3_column_int64 (NULL reads as 0)
MaxRowID(rs) == IF rs = {} THEN 0 ELSE SetMax({ r.id : r \in rs })

\* the rowid an INSERT with id NULL gets from AUTOINCREMENT
NextRowID(rs, sq) == MAX(sq, MaxRowID(rs)) + 1

\* the return codes an SQLite call can give: success, busy, another error
ExecRC == { SQLITE_OK, SQLITE_BUSY, SQLITE_ERROR }
FailRC == { SQLITE_BUSY, SQLITE_ERROR }

\* what an operation reports into the history variable last
NoOp(op) == [ op |-> op, saved |-> 0, errs |-> 0, inserted |-> {},
              committed |-> FALSE, fatal |-> FALSE, busy |-> FALSE,
              prev |-> 0, dTotal |-> 0, dBlocked |-> 0, removed |-> 0,
              curl |-> 0, imported |-> 0, skipped |-> 0,
              locks |-> 0, unlocks |-> 0, steps |-> << >> ]

\* an operation's result r with its calls of pthread_mutex_lock(&dblock) (in
\* dbopen) and of pthread_mutex_unlock(&dblock) (in dbclose) counted
Mutex(r, locks, unlocks) ==
    [ r EXCEPT !.last.locks = locks, !.last.unlocks = unlocks ]

(* ------------------------------------------------------------------ *)
(* save_to_DB                                                         *)
(* ------------------------------------------------------------------ *)
\* a variant that never binds the forward destination
BoundRowNoForward(q, doms, clis, fwds) ==
    [ timestamp |-> q.timestamp, type |-> q.type, status |-> q.status,
      domain |-> getDomainString(q, doms),
      client |-> getClientIPString(q, clis), forward |-> Null ]

\* the row save_to_DB binds for query record q (columns 1..6)
BoundRow(q, doms, clis, fwds) ==
    [ timestamp |-> q.timestamp,
      type      |-> q.type,
      status    |-> q.status,
      domain    |-> getDomainString(q, doms),
      client    |-> getClientIPString(q, clis),
      forward   |-> IF q.status = QUERY_FORWARDED /\ q.forwardID > -1
                    THEN fwds[q.forwardID + 1].name
                    ELSE Null ]

\* "already saved in database": the record is skipped
AlreadySaved(q) == q.db # 0

\* a variant in which no record stops the scan
TooYoungNever(q, currenttimestamp) == FALSE

\* a brand new query (age < 2 seconds) that is not yet completed stops the scan
TooYoung(q, currenttimestamp) ==
    ~q.complete /\ q.timestamp > currenttimestamp - GraceSeconds

\* a variant of the privacy test that lets the strictest level through
IsPrivateAboveMaximum(q) == q.privacylevel > PRIVACY_MAXIMUM

\* queries recorded in maximum privacy mode are neither stored nor counted
IsPrivate(q) == q.privacylevel >= PRIVACY_MAXIMUM

\* after a failed insertion: go on with the next record, or stop the scan
StopOnError(saved_error) == ~(saved_error < MaxSaveErrors)

\* the flag after a failed insertion (the call of check_database that follows
\* the continue / break of lines 548-556 is never reached)
RowErrorFlag(flag, rc) == flag

RECURSIVE SaveLoop(_, _)
\* the for loop of save_to_DB from index st.i on; f holds the return codes
SaveLoop(st, f) ==
    IF st.i >= Len(st.q) THEN st
    ELSE
    LET q == At(st.q, st.i)
        next == [ st EXCEPT !.i = st.i + 1 ]
    IN  IF AlreadySaved(q) THEN SaveLoop(next, f)
        ELSE IF TooYoung(q, f.t) THEN st
        ELSE IF IsPrivate(q) THEN SaveLoop(next, f)
        ELSE IF st.i \in f.rowfail
        THEN \* sqlite3_step(stmt) # SQLITE_DONE
             LET e == [ st EXCEPT !.errs = st.errs + 1,
                                  !.curl = st.curl + 1,
                                  !.flag = RowErrorFlag(st.flag, f.rowrc),
                                  !.fatal = st.fatal \/ f.rowrc # SQLITE_BUSY,
                                  !.busy = st.busy \/ f.rowrc = SQLITE_BUSY ]
             IN  IF StopOnError(e.errs) THEN e
                 ELSE SaveLoop([ e EXCEPT !.i = st.i + 1 ], f)
        ELSE LET id == NextRowID(rows \cup st.pend, st.seqn)
                 row == [ id |-> id ] @@ BoundRow(q, domains, clients, forwarded)
             IN  SaveLoop([ next EXCEPT
                     !.saved = st.saved + 1,
                     !.curl = st.curl + 1,
                     !.lastID = st.lastID + 1,
                     !.q = [ st.q EXCEPT ![st.i + 1].db = st.lastID + 1 ],
                     !.total = st.total + 1,
                     !.blocked = IF IsBlocked(q.status) THEN st.blocked + 1
                                                         ELSE st.blocked,
                     !.newlasttimestamp = MAX(st.newlasttimestamp, q.timestamp),
                     !.pend = st.pend \cup {row},
                     !.inserted = st.inserted \cup {st.i},
                     !.seqn = id ], f)

\* an operation's result r after a failed SQLite call with return code rc
\* that is handed to check_database
Failed(r, rc) ==
    [ r EXCEPT !.flag = check_database(r.flag, rc),
               !.last.fatal = @ \/ rc # SQLITE_BUSY,
               !.last.busy = @ \/ rc = SQLITE_BUSY ]

\* the inputs of a call of save_to_DB in which every SQLite call succeeds:
\* the return codes, and t, what time(NULL) returns for currenttimestamp
NoFault == [ t |-> now, open |-> SQLITE_OK, lastid |-> "ok", lastidrc |-> SQLITE_OK,
             ub |-> "misuse", begin |-> SQLITE_OK, prepare |-> SQLITE_OK,
             rowfail |-> {}, rowrc |-> SQLITE_ERROR, endtx |-> SQLITE_OK,
             finalize |-> SQLITE_OK, setprop |-> SQLITE_OK,
             c1 |-> SQLITE_OK, c2 |-> SQLITE_OK ]

\* a variant that moves the cursor whenever a record was saved
AdvanceCursorAnySaved(saved, saved_error) == saved > 0

\* "only if all queries have been saved successfully": the cursor moves
AdvanceCursor(saved, saved_error) == saved > 0 /\ saved_error = 0

\* a variant that takes the number of saved records for the index
NewCursorSaved(i, saved) == saved

\* the cursor's new value: the index at which the loop ended
NewCursor(i, saved) == i

\* the cursor and the transaction's outcome after the loop of save_to_DB
SaveFinish(r1, st, f) ==
    LET r2 == [ r1 EXCEPT !.q = st.q, !.flag = st.flag,
                          !.last.saved = st.saved, !.last.errs = st.errs,
                          !.last.inserted = st.inserted, !.last.curl = st.curl,
                          !.last.fatal = st.fatal, !.last.busy = st.busy ]
        \* END TRANSACTION succeeded: the pending rows are committed
        r3 == [ r2 EXCEPT !.rows = rows \cup st.pend, !.seq = st.seqn,
                          !.last.committed = TRUE ]
        \* lastdbindex = i; db_set_FTL_property(DB_LASTTIMESTAMP, ...)
        r4 == IF AdvanceCursor(st.saved, st.errs)
              THEN LET r == [ r3 EXCEPT !.idx = NewCursor(st.i, st.saved) ]
                   IN  IF f.setprop = SQLITE_OK
                       THEN [ r EXCEPT !.ftl.lasttimestamp = st.newlasttimestamp ]
                       ELSE Failed(r, f.setprop)
              ELSE r3
        \* db_update_counters(total, blocked)
        r5 == IF st.saved > 0
              THEN IF f.c1 # SQLITE_OK THEN Failed(r4, f.c1)
                   ELSE LET r == [ r4 EXCEPT !.cnt.total = @ + st.total,
                                             !.last.dTotal = st.total ]
                        IN  IF f.c2 # SQLITE_OK THEN Failed(r, f.c2)
                            ELSE [ r EXCEPT !.cnt.blocked = @ + st.blocked,
                                            !.last.dBlocked = st.blocked ]
              ELSE r4
    IN  IF f.endtx # SQLITE_OK
        THEN \* the connection is closed with the transaction open: rolled back
             Failed(r2, f.endtx)
        ELSE IF f.finalize # SQLITE_OK
        THEN [ r3 EXCEPT !.last.fatal = TRUE ]
        ELSE r5

\* save_to_DB under the return codes f: the new values of what it writes
save_to_DB(f) ==
    LET base == [ q |-> queries, idx |-> lastdbindex, flag |-> database,
                  rows |-> rows, seq |-> seq, cnt |-> dbcounters, ftl |-> ftl,
                  crashed |-> FALSE,
                  last |-> [ NoOp("save") EXCEPT !.prev = lastdbindex ] ]
        \* last_ID_in_DB(): on an error it closes the database, hands the
        \* result to check_database and returns DB_FAILED; save_to_DB goes on
        r1 == IF f.lastid = "ok" THEN base ELSE Failed(base, f.lastidrc)
        lastID == IF f.lastid = "ok" THEN MaxRowID(rows) ELSE DB_FAILED
        st0 == [ i |-> MAX(0, lastdbindex), q |-> queries, lastID |-> lastID,
                 saved |-> 0, errs |-> 0, total |-> 0, blocked |-> 0,
                 newlasttimestamp |-> 0, pend |-> {}, inserted |-> {},
                 seqn |-> seq, curl |-> 0, flag |-> r1.flag,
                 fatal |-> r1.last.fatal, busy |-> r1.last.busy ]
        \* dbclose() in last_ID_in_DB, then the dbclose() of save_to_DB
        closes == IF f.lastid = "ok" THEN 1 ELSE 2
    IN  IF config.privacylevel >= PRIVACY_NOSTATS THEN base
        ELSE IF f.open # SQLITE_OK THEN Mutex(Failed(base, f.open), 1, 1)
        ELSE IF f.lastid = "prepare"
        THEN \* sqlite3_close freed the handle that BEGIN TRANSACTION now uses:
             \* SQLITE_MISUSE from the stale handle, or a crash
             IF f.ub = "crash" THEN Mutex([ r1 EXCEPT !.crashed = TRUE ], 1, 1)
             ELSE Mutex(Failed(r1, SQLITE_MISUSE), 1, closes)
        ELSE IF f.begin # SQLITE_OK THEN Mutex(Failed(r1, f.begin), 1, closes)
        ELSE IF f.prepare # SQLITE_OK THEN Mutex(Failed(r1, f.prepare), 1, closes)
        ELSE Mutex(SaveFinish(r1, SaveLoop(st0, f), f), 1, closes)

(* ------------------------------------------------------------------ *)
(* delete_old_queries_in_DB                                           *)
(* ------------------------------------------------------------------ *)
\* a variant that keeps the rows of exactly the threshold's age
ExpiredStrict(rs, timestamp) == { r \in rs : r.timestamp < timestamp }

\* the rows DELETE FROM queries WHERE timestamp <= %i removes
Expired(rs, timestamp) == { r \in rs : r.timestamp <= timestamp }

\* the flag when delete_old_queries_in_DB returns after the DELETE statement
ReenableDatabase(flag) == TRUE

\* delete_old_queries_in_DB under the return codes f
delete_old_queries_in_DB(f) ==
    LET base == [ flag |-> database, rows |-> rows, last |-> NoOp("gc") ]
        timestamp == now - maxDBdays * SecondsPerDay
        gone == Expired(rows, timestamp)
    IN  IF f.open # SQLITE_OK THEN Mutex(Failed(base, f.open), 1, 1)
        ELSE IF f.delete # SQLITE_OK
        THEN LET r == Failed(base, f.delete)
             IN  Mutex([ r EXCEPT !.flag = ReenableDatabase(r.flag) ], 1, 1)
        ELSE Mutex([ base EXCEPT !.rows = rows \ gone,
                                 !.last.removed = Cardinality(gone),
                                 !.last.committed = TRUE,
                                 !.flag = ReenableDatabase(base.flag) ], 1, 1)

(* ------------------------------------------------------------------ *)
(* read_data_from_DB                                                  *)
(* ------------------------------------------------------------------ *)
\* SELECT * FROM queries WHERE timestamp >= mintime, which has no ORDER BY:
\* the rows come in rowid order (table scan) or in timestamp order (scan of
\* idx_queries_timestamps), as the query planner decides
Selected(rs, mintime, plan) ==
    IF plan = "rowid"
    THEN SetToSeq({ r \in rs : r.timestamp >= mintime })
    ELSE ByTimestamp({ r \in rs : r.timestamp >= mintime })

\* the checks of the import loop on one row: TRUE when the row is kept
TimestampOK(row, t) == ~(row.timestamp < MinTimestamp) /\ ~(row.timestamp > t)
TypeOK(row) == ~(row.type < TYPE_A \/ row.type >= TYPE_MAX)
TypeWanted(row) == ~(row.type = TYPE_AAAA /\ ~config.analyze_AAAA)
StatusOK(row) ==
    ~(row.status < QUERY_UNKNOWN \/ row.status > QUERY_EXTERNAL_BLOCKED_NXRA)
DomainOK(row) == row.domain # Null
ClientOK(row) == row.client # Null
ClientWanted(row) ==
    ~(config.ignore_localhost /\ (row.client = "127.0.0.1" \/ row.client = "::1"))
ForwardOK(row) == ~(row.status = QUERY_FORWARDED /\ row.forward = Null)

\* the row passes every check
RowKept(row, t) ==
    /\ TimestampOK(row, t)
    /\ TypeOK(row)
    /\ TypeWanted(row)
    /\ StatusOK(row)
    /\ DomainOK(row)
    /\ ClientOK(row)
    /\ ClientWanted(row)
    /\ ForwardOK(row)

\* the row is dropped by a validity check (not by a configured filter)
RowInvalid(row, t) ==
    \/ ~TimestampOK(row, t)
    \/ ~TypeOK(row)
    \/ ~StatusOK(row)
    \/ ~DomainOK(row)
    \/ ~ClientOK(row)
    \/ ~ForwardOK(row)

\* a variant that leaves the marker of an imported record unset
ImportedMarkerUnset(row) == 0

\* the persisted marker and complete flag the import gives a record
ImportedMarker(row) == row.id
ImportedComplete(row) == TRUE

\* the in-memory state m after the import of one kept row
ImportRow(m, row) ==
    LET fwds == IF row.status = QUERY_FORWARDED
                THEN findForwardID(m.forwarded, row.forward) ELSE m.forwarded
        forwardID == IF row.status = QUERY_FORWARDED
                     THEN FindID(m.forwarded, row.forward) ELSE 0
        timeidx == getOverTimeID(row.timestamp)
        doms == findDomainID(m.domains, row.domain)
        domainID == FindID(m.domains, row.domain)
        clis == findClientID(m.clients, row.client)
        clientID == FindID(m.clients, row.client)
        rec == [ timestamp |-> row.timestamp, type |-> row.type,
                 status |-> row.status, domainID |-> domainID,
                 clientID |-> clientID, forwardID |-> forwardID,
                 timeidx |-> timeidx, db |-> ImportedMarker(row),
                 complete |-> ImportedComplete(row),
                 \* not assigned by the import: the zero-filled slot
                 privacylevel |-> PRIVACY_SHOW_ALL ]
    IN  [ m EXCEPT
            !.queries = Append(m.queries, rec),
            !.forwarded = fwds,
            !.clients = CountClient(clis, clientID, timeidx, row.timestamp,
                                     row.status),
            !.domains = CountDomain(doms, domainID, row.status),
            !.agg = CountStatus(CountTotal(CountType(m.agg, timeidx, row.type),
                                           timeidx), timeidx, row.status),
            !.imported = m.imported + 1 ]

RECURSIVE ImportLoopAbort(_, _, _, _)
\* a variant of the loop that ends the scan at the first row it drops
ImportLoopAbort(m, sel, k, stopAt) ==
    IF k > Len(sel) \/ k = stopAt THEN m
    ELSE IF RowKept(sel[k], now)
         THEN ImportLoopAbort(ImportRow(m, sel[k]), sel, k + 1, stopAt)
         ELSE [ m EXCEPT !.skipped = m.skipped + 1 ]

RECURSIVE ImportLoop(_, _, _, _)
\* the while loop over the selected rows sel from position k on; the step
\* before row number stopAt fails (0: no step fails)
ImportLoop(m, sel, k, stopAt) ==
    IF k > Len(sel) \/ k = stopAt THEN m
    ELSE IF RowKept(sel[k], now)
         THEN ImportLoop(ImportRow(m, sel[k]), sel, k + 1, stopAt)
         ELSE ImportLoop([ m EXCEPT !.skipped = m.skipped + 1 ], sel, k + 1, stopAt)

\* the cursor after the import loop
ImportCursor(m) == Len(m.queries)

\* read_data_from_DB under the return codes f
read_data_from_DB(f) ==
    LET base == [ flag |-> database, idx |-> lastdbindex,
                  m |-> [ queries |-> queries, domains |-> domains,
                          clients |-> clients, forwarded |-> forwarded,
                          agg |-> agg, imported |-> 0, skipped |-> 0 ],
                  last |-> [ NoOp("import") EXCEPT !.prev = lastdbindex ] ]
        mintime == now - maxlogage
        sel == Selected(rows, mintime, f.plan)
        m2 == ImportLoop(base.m, sel, 1, f.stopAt)
        done == [ base EXCEPT !.m = m2, !.idx = ImportCursor(m2),
                              !.last.imported = m2.imported,
                              !.last.skipped = m2.skipped ]
    IN  IF config.privacylevel >= PRIVACY_NOSTATS THEN base
        ELSE IF f.open # SQLITE_OK THEN Mutex(Failed(base, f.open), 1, 1)
        ELSE IF f.prepare # SQLITE_OK THEN Mutex(Failed(base, f.prepare), 1, 1)
        ELSE IF f.stopAt # 0 THEN Mutex(Failed(done, f.steprc), 1, 1)
        ELSE Mutex([ done EXCEPT !.last.committed = TRUE ], 1, 1)

(* ------------------------------------------------------------------ *)
(* db_init                                                            *)
(* ------------------------------------------------------------------ *)
\* db_get_FTL_property(DB_VERSION) through db_query_int: the stored value,
\* DB_NODATA when table ftl has no such row (kept as version DB_NODATA), and
\* DB_FAILED when sqlite3_prepare_v2 or sqlite3_step fails
ReadVersion(read, stored) == IF read = "ok" THEN stored ELSE DB_FAILED

\* the connection after db_query_int: a failed prepare is followed by
\* dbclose(), which frees the connection; after a failed step the statement
\* is not finalized, so sqlite3_close refuses and the connection stays open
HandleAfterRead(read, handle) == IF read = "prepare" THEN "freed" ELSE handle

\* db_init returns with the flag database false
InitOff(r) == [ r EXCEPT !.flag = FALSE ]

\* the process dies inside db_init
InitCrash(r) == [ r EXCEPT !.crashed = TRUE ]

\* create_counter_table(): five statements, the last of which sets the
\* version to 2; failed is the number of the statement that fails, 0 for none
create_counter_table(r, failed) ==
    IF failed = 0
    THEN [ r EXCEPT !.cnt = [ total |-> 0, blocked |-> 0 ], !.ftl.version = 2,
                    !.last.steps = Append(@, 2) ]
    ELSE r

\* create_network_table(): creates the table and sets the version to 3
create_network_table(r) ==
    [ r EXCEPT !.ftl.version = 3, !.last.steps = Append(@, 3) ]

\* the end of db_init: sqlite3_close(db), on a connection that an earlier
\* dbclose() may have freed, then pthread_mutex_init and database = true
InitFinish(r, handle, f) ==
    IF handle = "freed" /\ f.ub = "crash" THEN InitCrash(r)
    ELSE [ r EXCEPT !.flag = TRUE ]

\* "update to version 3 if lower", dbversion being what was read last
InitToVersion3(r, dbversion, handle, f) ==
    IF dbversion < 3
    THEN IF handle = "freed"
         THEN \* create_network_table() on the freed connection: SQLITE_MISUSE
              \* from the stale handle, so the step fails, or a crash
              IF f.ub = "crash" THEN InitCrash(r) ELSE InitOff(r)
         ELSE IF ~f.network THEN InitOff(r)
         ELSE InitFinish(create_network_table(r),
                         HandleAfterRead(f.read3, handle), f)
    ELSE InitFinish(r, handle, f)

\* "update to version 2 if lower"
InitToVersion2(r, dbversion, f) ==
    IF dbversion < 2
    THEN IF f.counter # 0 THEN InitOff(create_counter_table(r, f.counter))
         ELSE LET r2 == create_counter_table(r, 0)
              IN  InitToVersion3(r2, ReadVersion(f.read2, r2.ftl.version),
                                 HandleAfterRead(f.read2, "open"), f)
    ELSE InitToVersion3(r, dbversion, "open", f)

\* "test DB version and see if we need to upgrade the database file"
InitVersion(r, f) ==
    LET dbversion == ReadVersion(f.read1, r.ftl.version)
    IN  IF dbversion < 1 THEN InitOff(r) ELSE InitToVersion2(r, dbversion, f)

\* db_create(): a new store file with its tables, at version 3; create says
\* how far it gets: "open" (nothing is created), "network" (all but the
\* network table, the version is 2), "ok"
db_create(r, create) ==
    IF create = "open" THEN r
    ELSE [ r EXCEPT !.rows = {}, !.seq = 0,
                    !.cnt = [ total |-> 0, blocked |-> 0 ],
                    !.ftl = [ version |-> IF create = "ok" THEN 3 ELSE 2,
                              lasttimestamp |-> 0, present |-> TRUE ] ]

\* db_init under the inputs f: file (a store file is named), open, create,
\* read1, read2, read3, counter, network, ub
db_init(f) ==
    LET base == [ flag |-> database, rows |-> rows, seq |-> seq,
                  cnt |-> dbcounters, ftl |-> ftl, crashed |-> FALSE,
                  last |-> [ NoOp("init") EXCEPT !.prev = ftl.version ] ]
    IN  IF ~f.file THEN InitOff(base)
        ELSE IF f.open # SQLITE_OK
        THEN IF f.create = "ok" THEN InitVersion(db_create(base, f.create), f)
             ELSE InitOff(db_create(base, f.create))
        ELSE InitVersion(base, f)

(* ------------------------------------------------------------------ *)
(* The resolution pipeline and the clock (external to database.c)     *)
(* ------------------------------------------------------------------ *)
\* The process is up and DB_thread has not returned. Once it has returned no
\* operation of database.c runs any more, and the run is not followed further.
Running == phase = "run" /\ dbpc # "exit"

LiveClient == "10.0.0.1"
LiveDomain == "ads.example"
LiveForward == "8.8.8.8"

\* a new query arrives while the privacy level is privacylevel: an incomplete
\* record of unknown status is appended
NewQueryAt(privacylevel) ==
    /\ Running
    /\ shmlock = "none"
    /\ config.privacylevel < PRIVACY_NOSTATS
    /\ Len(queries) < hist.room
    /\  LET timeidx == getOverTimeID(now)
            doms == findDomainID(domains, LiveDomain)
            clis == findClientID(clients, LiveClient)
            rec == [ timestamp |-> now, type |-> TYPE_A,
                     status |-> QUERY_UNKNOWN,
                     domainID |-> FindID(domains, LiveDomain),
                     clientID |-> FindID(clients, LiveClient),
                     forwardID |-> -1, timeidx |-> timeidx, db |-> 0,
                     complete |-> FALSE, privacylevel |-> privacylevel ]
        IN  /\ queries' = Append(queries, rec)
            /\ domains' = doms
            /\ clients' = CountClient(clis, rec.clientID, timeidx, now,
                                      QUERY_UNKNOWN)
            /\ agg' = CountStatus(CountTotal(CountType(agg, timeidx, TYPE_A),
                                              timeidx), timeidx, QUERY_UNKNOWN)
    /\ last' = NoOp("idle")
    /\ hist' = [ hist EXCEPT !.nins = Append(@, 0) ]
    /\ UNCHANGED << now, phase, config, forwarded, lastdbindex, database,
                    DBdeleteoldqueries, lastDBsave, dbpc, shmlock, rows, seq,
                    dbcounters, ftl >>

\* the answer to a query is known: its status (blocked by gravity, forwarded
\* upstream) is set and the record is complete
ResolveTo(status) ==
    /\ Running
    /\ shmlock = "none"
    /\ \E i \in 1..Len(queries) :
        /\ ~queries[i].complete
        /\ queries[i].status = QUERY_UNKNOWN
        /\ LET q == queries[i]
               fwds == IF status = QUERY_FORWARDED
                       THEN findForwardID(forwarded, LiveForward) ELSE forwarded
               forwardID == IF status = QUERY_FORWARDED
                            THEN FindID(forwarded, LiveForward) ELSE q.forwardID
               a == [ agg EXCEPT !.unknown = @ - 1 ]
           IN  /\ queries' = [ queries EXCEPT ![i].status = status,
                                              ![i].forwardID = forwardID,
                                              ![i].complete = TRUE ]
               /\ forwarded' = fwds
               /\ agg' = CountStatus(a, q.timeidx, status)
               /\ domains' = CountDomain(domains, q.domainID, status)
               /\ clients' = [ clients EXCEPT ![q.clientID + 1].blockedcount =
                                  IF IsBlocked(status) THEN @ + 1 ELSE @ ]
    /\ last' = NoOp("idle")
    /\ UNCHANGED << now, phase, config, lastdbindex, database,
                    DBdeleteoldqueries, lastDBsave, dbpc, shmlock, rows, seq,
                    dbcounters, ftl, hist >>

\* the wake timestamp time(NULL) - time(NULL) % config.DBinterval, where
\* minuend and operand are what the two calls of time(NULL) returned
AlignedWake(minuend, operand, interval) == minuend - (operand % interval)

\* what the two calls of time(NULL) in one wake expression return when the
\* clock does not advance between them
SteadyClock == { << now, now >> }

\* what they can return: the order in which C evaluates the operands of the
\* subtraction is unspecified, and the call evaluated second can see the
\* next second
RacyClock == { << now, now >>, << now, now + 1 >>, << now + 1, now >> }

\* the end of the observed time: MaxTicks flush intervals after the start
Horizon == StartTime + MaxTicks * config.DBinterval

\* DB_thread has its round of the current second to do
DBDue ==
    \/ dbpc \in { "locked", "saved", "gc", "hook" }
    \/ dbpc = "loop" /\ database /\ now - lastDBsave >= config.DBinterval

\* a second passes; DB_thread, which polls every 100 ms, has done its round
Tick ==
    /\ Running
    /\ ~DBDue
    /\ now < Horizon
    /\ now' = now + 1
    /\ last' = NoOp("idle")
    /\ UNCHANGED << phase, config, queries, domains, clients, forwarded, agg,
                    lastdbindex, database, DBdeleteoldqueries, lastDBsave,
                    dbpc, shmlock, rows, seq, dbcounters, ftl, hist >>

\* the daily timer asks for a garbage collection of the store
RequestGC ==
    /\ Running
    /\ ~DBdeleteoldqueries
    /\ DBdeleteoldqueries' = TRUE
    /\ last' = NoOp("idle")
    /\ UNCHANGED << now, phase, config, queries, domains, clients, forwarded,
                    agg, lastdbindex, database, lastDBsave, dbpc, shmlock,
                    rows, seq, dbcounters, ftl, hist >>

(* ------------------------------------------------------------------ *)
(* Startup: db_init, the import, then the scheduler thread is started *)
(* ------------------------------------------------------------------ *)
\* the inputs db_init can meet in the current state: a store file that is
\* absent cannot be opened, and only then can db_create make a new one
InitInputs ==
    { f \in [ file : BOOLEAN, open : ExecRC, create : { "open", "network", "ok" },
              read1 : { "ok", "prepare", "step" },
              read2 : { "ok", "prepare", "step" },
              read3 : { "ok", "prepare", "step" },
              counter : 0..5, network : BOOLEAN, ub : { "misuse", "crash" } ] :
        /\ ~ftl.present => f.open # SQLITE_OK
        /\ ftl.present /\ f.open # SQLITE_OK => f.create = "open" }

\* db_init() at the start of the process. With the flag true the import
\* follows; with the flag false the import is left out and DB_thread starts
\* at once.
DBInit ==
    /\ phase = "start"
    /\ \E f \in InitInputs :
         LET r == db_init(f)
         IN  /\ database' = r.flag
             /\ rows' = r.rows
             /\ seq' = r.seq
             /\ dbcounters' = r.cnt
             /\ ftl' = r.ftl
             /\ last' = r.last
             /\ phase' = IF r.crashed THEN "crashed"
                         ELSE IF r.flag THEN "boot" ELSE "run"
             /\ dbpc' = IF ~r.crashed /\ ~r.flag THEN "loop" ELSE dbpc
             /\ lastDBsave' = IF ~r.crashed /\ ~r.flag
                               THEN AlignedWake(now, now, config.DBinterval)
                               ELSE lastDBsave
    /\ UNCHANGED << now, config, queries, domains, clients, forwarded, agg,
                    lastdbindex, DBdeleteoldqueries, shmlock, hist >>

Import ==
    /\ phase = "boot"
    /\ \E open \in ExecRC, prepare \in ExecRC, steprc \in FailRC,
          stopAt \in 0..(Cardinality(rows) + 1), plan \in { "rowid", "index" } :
        /\ open # SQLITE_OK => prepare = SQLITE_OK /\ stopAt = 0
        /\ prepare # SQLITE_OK => stopAt = 0
        /\ stopAt = 0 => steprc = SQLITE_ERROR
        /\ stopAt <= Len(Selected(rows, now - maxlogage, plan)) + 1
        /\ open # SQLITE_OK \/ prepare # SQLITE_OK \/ stopAt # 0
              => hist.faults < hist.budget
        /\ LET r == read_data_from_DB([ open |-> open, prepare |-> prepare,
                                        steprc |-> steprc, stopAt |-> stopAt,
                                        plan |-> plan ])
           IN  /\ queries' = r.m.queries
               /\ domains' = r.m.domains
               /\ clients' = r.m.clients
               /\ forwarded' = r.m.forwarded
               /\ agg' = r.m.agg
               /\ lastdbindex' = r.idx
               /\ database' = r.flag
               /\ last' = r.last
               /\ hist' = [ hist EXCEPT
                              !.nins = [ i \in 1..Len(r.m.queries) |-> 0 ],
                              !.imported = Len(r.m.queries),
                              !.faults = IF open # SQLITE_OK
                                            \/ prepare # SQLITE_OK \/ stopAt # 0
                                         THEN @ + 1 ELSE @ ]
    /\ phase' = "run"
    \* DB_thread starts: lastDBsave = time(NULL) - time(NULL) % DBinterval
    /\ lastDBsave' = AlignedWake(now, now, config.DBinterval)
    /\ dbpc' = "loop"
    /\ UNCHANGED << now, config, DBdeleteoldqueries, shmlock, rows, seq,
                    dbcounters, ftl >>

(* ------------------------------------------------------------------ *)
(* DB_thread                                                          *)
(* ------------------------------------------------------------------ *)
\* the loop test fails: the thread returns
DBExit ==
    /\ phase = "run"
    /\ dbpc = "loop"
    /\ ~database
    /\ dbpc' = "exit"
    /\ last' = NoOp("exit")
    /\ UNCHANGED << now, phase, config, queries, domains, clients, forwarded,
                    agg, lastdbindex, database, DBdeleteoldqueries, lastDBsave,
                    shmlock, rows, seq, dbcounters, ftl, hist >>

\* the records a flush would try to insert, were no insertion to fail
RECURSIVE Eligible(_)
Eligible(i) ==
    IF i >= Len(queries) THEN {}
    ELSE IF AlreadySaved(At(queries, i)) THEN Eligible(i + 1)
    ELSE IF TooYoung(At(queries, i), now) THEN {}
    ELSE IF IsPrivate(At(queries, i)) THEN Eligible(i + 1)
    ELSE {i} \cup Eligible(i + 1)

\* the return codes of the calls that follow the loop of save_to_DB; the
\* statement was reset after its last step, so sqlite3_finalize gives SQLITE_OK
SaveTails(some, clean) ==
    { [ endtx |-> rc, finalize |-> SQLITE_OK, setprop |-> SQLITE_OK,
        c1 |-> SQLITE_OK, c2 |-> SQLITE_OK ] : rc \in FailRC }
    \cup { [ endtx |-> SQLITE_OK, finalize |-> SQLITE_OK, setprop |-> sp,
             c1 |-> c[1], c2 |-> c[2] ] :
             sp \in (IF clean THEN ExecRC ELSE { SQLITE_OK }),
             c \in (IF some
                    THEN { << SQLITE_OK, x >> : x \in ExecRC }
                         \cup { << x, SQLITE_OK >> : x \in FailRC }
                    ELSE { << SQLITE_OK, SQLITE_OK >> }) }

\* the return codes save_to_DB can meet in the current state
SaveInputs ==
    { [ NoFault EXCEPT !.open = rc ] : rc \in FailRC }
    \cup { [ NoFault EXCEPT !.lastid = "prepare", !.lastidrc = rc, !.ub = u ] :
             rc \in FailRC, u \in { "misuse", "crash" } }
    \cup { [ NoFault EXCEPT !.lastid = l[1], !.lastidrc = l[2], !.begin = rc ] :
             l \in { << "ok", SQLITE_OK >>, << "step", SQLITE_BUSY >>,
                     << "step", SQLITE_ERROR >> },
             rc \in FailRC }
    \cup { [ NoFault EXCEPT !.lastid = l[1], !.lastidrc = l[2], !.prepare = rc ] :
             l \in { << "ok", SQLITE_OK >>, << "step", SQLITE_BUSY >>,
                     << "step", SQLITE_ERROR >> },
             rc \in FailRC }
    \cup UNION { UNION { UNION {
           { [ NoFault EXCEPT !.lastid = l[1], !.lastidrc = l[2],
                              !.rowfail = F, !.rowrc = rr,
                              !.endtx = t.endtx, !.finalize = t.finalize,
                              !.setprop = t.setprop, !.c1 = t.c1, !.c2 = t.c2 ] :
               t \in SaveTails(Eligible(MAX(0, lastdbindex)) \ F # {},
                               F = {} /\ Eligible(MAX(0, lastdbindex)) # {}) } :
             rr \in (IF F = {} THEN { SQLITE_ERROR } ELSE FailRC) } :
             F \in SUBSET Eligible(MAX(0, lastdbindex)) } :
             l \in { << "ok", SQLITE_OK >>, << "step", SQLITE_BUSY >>,
                     << "step", SQLITE_ERROR >> } }

\* the number of failed calls among the return codes f of save_to_DB
SaveFaults(f) ==
    Cardinality({ k \in { "open", "lastidrc", "begin", "prepare", "endtx",
                          "finalize", "setprop", "c1", "c2" } :
                    f[k] # SQLITE_OK })
    + (IF f.rowfail = {} THEN 0 ELSE 1)

\* the call of save_to_DB() by DB_thread at clock reading t
Flush(t) ==
    \E f \in SaveInputs :
        LET r == save_to_DB([ f EXCEPT !.t = t ])
        IN  /\ hist.faults + SaveFaults(f) <= hist.budget
            /\ queries' = r.q
            /\ lastdbindex' = r.idx
            /\ database' = r.flag
            /\ rows' = r.rows
            /\ seq' = r.seq
            /\ dbcounters' = r.cnt
            /\ ftl' = r.ftl
            /\ last' = r.last
            /\ phase' = IF r.crashed THEN "crashed" ELSE phase
            /\ hist' = [ hist EXCEPT
                 !.nins = [ i \in 1..Len(queries) |->
                              IF r.last.committed /\ (i - 1) \in r.last.inserted
                              THEN @[i] + 1 ELSE @[i] ],
                 !.faults = @ + SaveFaults(f),
                 !.saved = IF r.last.committed
                           THEN @ \o [ k \in 1..Cardinality(r.last.inserted) |->
                                        Describe(At(queries,
                                                    Ascending(r.last.inserted)[k]),
                                                 domains, clients, forwarded) ]
                           ELSE @,
                 !.total = IF r.last.committed THEN @ + r.last.saved ELSE @,
                 !.blocked = IF r.last.committed
                             THEN @ + Cardinality({ i \in r.last.inserted :
                                        IsBlocked(At(queries, i).status) })
                             ELSE @ ]

\* lock_shm() by DB_thread
AcquireLock(holder) == "db"

\* a variant of unlock_shm() that leaves the lock with its holder
ReleaseLockKept(holder) == holder

\* unlock_shm()
ReleaseLock(holder) == "none"

\* one round of the loop of DB_thread up to unlock_shm(): the loop test and
\* the interval test pass, lastDBsave is re-aligned from two readings of the
\* clock drawn from reads, and save_to_DB() runs between lock_shm() and
\* unlock_shm()
DBSaveAt(reads) ==
    /\ phase = "run"
    /\ dbpc = "loop"
    /\ database
    /\ now - lastDBsave >= config.DBinterval
    /\ shmlock = "none"
    /\ \E t \in reads :
         /\ MAX(t[1], t[2]) <= Horizon
         /\ lastDBsave' = AlignedWake(t[1], t[2], config.DBinterval)
         /\ now' = MAX(t[1], t[2])
    /\ Flush(now')
    /\ shmlock' = ReleaseLock(AcquireLock(shmlock))
    /\ dbpc' = "gc"
    /\ UNCHANGED << config, domains, clients, forwarded, agg,
                    DBdeleteoldqueries >>

\* a round in which the clock does not advance between the two readings
DBSave == DBSaveAt(SteadyClock)

\* a round with any two readings of the clock
DBSaveRacy == DBSaveAt(RacyClock)

\* the garbage collection when requested; DB_thread goes on at pc
DBCollectTo(pc) ==
    /\ phase = "run"
    /\ dbpc = "gc"
    /\ IF DBdeleteoldqueries
       THEN \E open \in ExecRC, delete \in ExecRC :
              /\ open # SQLITE_OK => delete = SQLITE_OK
              /\ open # SQLITE_OK \/ delete # SQLITE_OK
                    => hist.faults < hist.budget
              /\ hist' = [ hist EXCEPT !.faults =
                             IF open # SQLITE_OK \/ delete # SQLITE_OK
                             THEN @ + 1 ELSE @ ]
              /\ LET r == delete_old_queries_in_DB([ open |-> open,
                                                     delete |-> delete ])
                 IN  /\ rows' = r.rows
                     /\ database' = r.flag
                     /\ last' = r.last
              /\ DBdeleteoldqueries' = FALSE
       ELSE /\ last' = NoOp("nogc")
            /\ UNCHANGED << rows, database, DBdeleteoldqueries, hist >>
    /\ dbpc' = pc
    /\ UNCHANGED << now, phase, config, queries, domains, clients, forwarded,
                    agg, lastdbindex, lastDBsave, shmlock, seq, dbcounters,
                    ftl >>

\* the garbage collection when requested, then the network table hook, which
\* writes nothing that is modelled
DBCollect == DBCollectTo("loop")

\* the steps of one round of DB_thread taken one at a time: the interval
\* test passes, lastDBsave is re-aligned and lock_shm() returns
DBLock ==
    /\ phase = "run"
    /\ dbpc = "loop"
    /\ database
    /\ now - lastDBsave >= config.DBinterval
    /\ shmlock = "none"
    /\ lastDBsave' = AlignedWake(now, now, config.DBinterval)
    /\ shmlock' = AcquireLock(shmlock)
    /\ dbpc' = "locked"
    /\ last' = NoOp("lock")
    /\ UNCHANGED << now, phase, config, queries, domains, clients, forwarded,
                    agg, lastdbindex, database, DBdeleteoldqueries, rows, seq,
                    dbcounters, ftl, hist >>

\* save_to_DB() runs
DBFlush ==
    /\ phase = "run"
    /\ dbpc = "locked"
    /\ Flush(now)
    /\ dbpc' = "saved"
    /\ UNCHANGED << now, config, domains, clients, forwarded, agg,
                    DBdeleteoldqueries, lastDBsave, shmlock >>

\* unlock_shm()
DBUnlock ==
    /\ phase = "run"
    /\ dbpc = "saved"
    /\ shmlock' = ReleaseLock(shmlock)
    /\ dbpc' = "gc"
    /\ last' = NoOp("unlock")
    /\ UNCHANGED << now, phase, config, queries, domains, clients, forwarded,
                    agg, lastdbindex, database, DBdeleteoldqueries, lastDBsave,
                    rows, seq, dbcounters, ftl, hist >>

\* the garbage collection when requested
DBCollectOnly == DBCollectTo("hook")

\* parse_arp_cache() when config.parse_arp_cache is set; then sleepms(100)
DBHook ==
    /\ phase = "run"
    /\ dbpc = "hook"
    /\ \E parse_arp_cache \in BOOLEAN :
         last' = NoOp(IF parse_arp_cache THEN "hook" ELSE "nohook")
    /\ dbpc' = "loop"
    /\ UNCHANGED << now, phase, config, queries, domains, clients, forwarded,
                    agg, lastdbindex, database, DBdeleteoldqueries, lastDBsave,
                    shmlock, rows, seq, dbcounters, ftl, hist >>

\* the process ends (killed, or crashed) and a fresh process starts on the
\* same store file: its memory is empty, its cursor 0, its flag true. Only
\* a restart at the end of the observed time is followed.
Restart ==
    /\ phase \in { "run", "crashed" }
    /\ dbpc \in { "loop", "exit" } \/ phase = "crashed"
    /\ hist.boots < MaxBoots
    /\ now = Horizon
    /\ phase' = "boot"
    /\ queries' = << >>
    /\ domains' = << >>
    /\ clients' = << >>
    /\ forwarded' = << >>
    /\ agg' = EmptyAgg
    /\ lastdbindex' = 0
    /\ database' = TRUE
    /\ DBdeleteoldqueries' = FALSE
    /\ lastDBsave' = 0
    /\ dbpc' = "idle"
    /\ shmlock' = "none"
    /\ last' = NoOp("restart")
    /\ hist' = [ hist EXCEPT !.boots = @ + 1, !.nins = << >>, !.imported = 0,
                             !.live = Snapshot(queries, domains, clients,
                                               forwarded, agg) ]
    /\ UNCHANGED << now, config, rows, seq, dbcounters, ftl >>

(* ------------------------------------------------------------------ *)
(* Initial states: the process after db_init() has succeeded          *)
(* ------------------------------------------------------------------ *)
\* a row of table queries without its id
Row(ts, type, status, domain, client, forward) ==
    [ timestamp |-> ts, type |-> type, status |-> status, domain |-> domain,
      client |-> client, forward |-> forward ]

\* rows a store file can hold that the import accepts
ValidRows ==
    << Row(StartTime - maxDBdays * SecondsPerDay - 1, TYPE_A, QUERY_GRAVITY,
           LiveDomain, LiveClient, Null),
       Row(StartTime - maxDBdays * SecondsPerDay + 1, TYPE_A, QUERY_CACHE,
           "cdn.example", LiveClient, Null),
       Row(StartTime - 10, TYPE_A, QUERY_FORWARDED, LiveDomain, LiveClient,
           LiveForward) >>

\* rows a store file can hold that the import drops
OddRows ==
    << Row(StartTime - 10, 99, QUERY_GRAVITY, LiveDomain, LiveClient, Null),
       Row(StartTime - 10, TYPE_A, 99, LiveDomain, LiveClient, Null),
       Row(StartTime + 100, TYPE_A, QUERY_GRAVITY, LiveDomain, LiveClient, Null),
       Row(StartTime - 10, TYPE_A, QUERY_FORWARDED, LiveDomain, LiveClient, Null),
       Row(StartTime - 10, TYPE_A, QUERY_GRAVITY, Null, LiveClient, Null),
       Row(StartTime - 10, TYPE_A, QUERY_GRAVITY, LiveDomain, Null, Null),
       Row(StartTime - 10, TYPE_A, QUERY_GRAVITY, LiveDomain, "127.0.0.1", Null),
       Row(StartTime - 10, TYPE_AAAA, QUERY_GRAVITY, LiveDomain, LiveClient, Null) >>

\* rows whose domain or client text is the empty string, not NULL
EmptyRows ==
    << Row(StartTime - 10, TYPE_A, QUERY_GRAVITY, "", LiveClient, Null),
       Row(StartTime - 10, TYPE_A, QUERY_CACHE, LiveDomain, "", Null) >>

\* the tables of rows made of at most MaxInitRows of the candidates cand,
\* with ids 1, 2, ... in the order of the candidates
Stores(cand) ==
    { { [ id |-> Cardinality({ j \in S : j <= i }) ] @@ cand[i] : i \in S } :
        S \in { T \in SUBSET (1..Len(cand)) : Cardinality(T) <= MaxInitRows } }

\* room: the number of query records the log has room for
InitWide(stores, configs, budget, room) ==
    /\ now = StartTime
    /\ phase = "boot"
    /\ config \in configs
    /\ queries = << >>
    /\ domains = << >>
    /\ clients = << >>
    /\ forwarded = << >>
    /\ agg = EmptyAgg
    /\ lastdbindex = 0
    /\ database = TRUE
    /\ DBdeleteoldqueries = FALSE
    /\ lastDBsave = 0
    /\ dbpc = "idle"
    /\ shmlock = "none"
    /\ rows \in stores
    /\ seq = MaxRowID(rows)
    /\ dbcounters = [ total |-> 0, blocked |-> 0 ]
    /\ ftl = [ version |-> 3, lasttimestamp |-> 0, present |-> TRUE ]
    /\ last = NoOp("init")
    /\ hist = [ nins |-> << >>, total |-> 0, blocked |-> 0, boots |-> 0,
                faults |-> 0, budget |-> budget, room |-> room,
                imported |-> 0, saved |-> << >>,
                live |-> Snapshot(<< >>, << >>, << >>, << >>, EmptyAgg) ]

InitWith(stores, configs, budget) ==
    InitWide(stores, configs, budget, MaxQueries)

\* the configurations: statistics kept or not, a flush every second
Configs(levels) ==
    [ privacylevel : levels, analyze_AAAA : BOOLEAN, ignore_localhost : BOOLEAN,
      DBinterval : { 1 } ]

PlainConfigs(levels) ==
    { c \in Configs(levels) : c.analyze_AAAA /\ ~c.ignore_localhost }

Init ==
    InitWith({ {}, { [ id |-> 1 ] @@ ValidRows[3] } },
             PlainConfigs({ PRIVACY_SHOW_ALL, PRIVACY_NOSTATS }), MaxFaults)

Next ==
    \/ Import
    \/ NewQueryAt(PRIVACY_SHOW_ALL)
    \/ NewQueryAt(PRIVACY_MAXIMUM)
    \/ ResolveTo(QUERY_GRAVITY)
    \/ Tick
    \/ DBSave
    \/ DBCollect
    \/ DBExit

Spec == Init /\ [][Next]_vars

\* the import and the flushes that follow it, over store files that hold up
\* to MaxInitRows rows, valid or not, under every configuration
InitImport ==
    InitWith(Stores(OddRows \o EmptyRows \o ValidRows),
             Configs({ PRIVACY_SHOW_ALL, PRIVACY_NOSTATS }), MaxFaults)

NextImport ==
    \/ Import
    \/ Tick
    \/ DBSave
    \/ DBCollect
    \/ DBExit

SpecImport == InitImport /\ [][NextImport]_vars

\* flushes over a log of one record more, with an empty store at the start
InitSave ==
    InitWide({ {} }, PlainConfigs({ PRIVACY_SHOW_ALL }), MaxFaults - 1,
             MaxQueries + 1)

NextSave ==
    \/ Import
    \/ NewQueryAt(PRIVACY_SHOW_ALL)
    \/ ResolveTo(QUERY_GRAVITY)
    \/ Tick
    \/ DBSave
    \/ DBCollect
    \/ DBExit

SpecSave == InitSave /\ [][NextSave]_vars

\* the process from its start, over store files of every version, with or
\* without a version row, and without a store file
StoredVersions == { DB_NODATA, 0, 1, 2, 3 }

InitStart ==
    /\ now = StartTime
    /\ phase = "start"
    /\ config \in PlainConfigs({ PRIVACY_SHOW_ALL })
    /\ queries = << >>
    /\ domains = << >>
    /\ clients = << >>
    /\ forwarded = << >>
    /\ agg = EmptyAgg
    /\ lastdbindex = 0
    /\ database = FALSE
    /\ DBdeleteoldqueries = FALSE
    /\ lastDBsave = 0
    /\ dbpc = "idle"
    /\ shmlock = "none"
    /\ rows = {}
    /\ seq = 0
    /\ dbcounters = [ total |-> 0, blocked |-> 0 ]
    /\ ftl \in { [ version |-> v, lasttimestamp |-> 0, present |-> TRUE ] :
                   v \in StoredVersions }
               \cup { [ version |-> DB_NODATA, lasttimestamp |-> 0,
                        present |-> FALSE ] }
    /\ last = NoOp("start")
    /\ hist = [ nins |-> << >>, total |-> 0, blocked |-> 0, boots |-> 0,
                faults |-> 0, budget |-> MaxFaults - 1, room |-> MaxQueries - 1,
                imported |-> 0, saved |-> << >>,
                live |-> Snapshot(<< >>, << >>, << >>, << >>, EmptyAgg) ]

NextInit ==
    \/ DBInit
    \/ Import
    \/ NewQueryAt(PRIVACY_SHOW_ALL)
    \/ ResolveTo(QUERY_GRAVITY)
    \/ Tick
    \/ DBSave
    \/ DBCollect
    \/ DBExit

SpecInit == InitStart /\ [][NextInit]_vars

\* the round of DB_thread step by step, with the other threads in between
InitSched ==
    InitWide({ {} }, PlainConfigs({ PRIVACY_SHOW_ALL }), MaxFaults - 1,
             MaxQueries - 1)

NextSched ==
    \/ Import
    \/ NewQueryAt(PRIVACY_SHOW_ALL)
    \/ ResolveTo(QUERY_GRAVITY)
    \/ Tick
    \/ RequestGC
    \/ DBLock
    \/ DBFlush
    \/ DBUnlock
    \/ DBCollectOnly
    \/ DBHook
    \/ DBExit

SpecSched == InitSched /\ [][NextSched]_vars

\* the scheduler with a flush interval of several seconds, started on an
\* interval boundary or after it, and any two readings of the clock
TimerConfigs ==
    { [ c EXCEPT !.DBinterval = d ] :
        c \in PlainConfigs({ PRIVACY_SHOW_ALL }), d \in { 2, 3 } }

InitTimer == InitWith({ {} }, TimerConfigs, MaxFaults - 1)

NextTimer ==
    \/ Import
    \/ NewQueryAt(PRIVACY_SHOW_ALL)
    \/ Tick
    \/ DBSaveRacy
    \/ DBCollect
    \/ DBExit

SpecTimer == InitTimer /\ [][NextTimer]_vars

\* the scheduler with the daily request for a garbage collection
InitGC ==
    InitWith(Stores(ValidRows), PlainConfigs({ PRIVACY_SHOW_ALL }), MaxFaults - 1)

NextGC ==
    \/ Import
    \/ NewQueryAt(PRIVACY_SHOW_ALL)
    \/ ResolveTo(QUERY_GRAVITY)
    \/ Tick
    \/ RequestGC
    \/ DBSave
    \/ DBCollect
    \/ DBExit

SpecGC == InitGC /\ [][NextGC]_vars

\* a process on a new store file, then a fresh process on the same file
InitRT == InitWith({ {} }, PlainConfigs({ PRIVACY_SHOW_ALL }), MaxFaults - 1)

NextRT ==
    \/ Import
    \/ NewQueryAt(PRIVACY_SHOW_ALL)
    \/ ResolveTo(QUERY_GRAVITY)
    \/ ResolveTo(QUERY_FORWARDED)
    \/ Tick
    \/ DBSave
    \/ DBCollect
    \/ DBExit
    \/ Restart

SpecRT == InitRT /\ [][NextRT]_vars

(* ------------------------------------------------------------------ *)
(* Claims                                                             *)
(* ------------------------------------------------------------------ *)
\* C1: no in-memory query record is inserted into the store more than once,
\* and a persisted marker that is not 0 is never changed again.
C1_InsertedAtMostOnce ==
    /\ Len(hist.nins) = Len(queries)
    /\ \A i \in 1..Len(queries) : hist.nins[i] <= 1

FirstNotEligible(from) ==
    LET young == { i \in from..(Len(queries) - 1) :
                     /\ At(queries, i).db = 0
                     /\ ~At(queries, i).complete
                     /\ At(queries, i).timestamp > now - GraceSeconds }
    IN  IF young = {} THEN Len(queries)
        ELSE CHOOSE i \in young : \A j \in young : i <= j

\* C3 as stated: after every call of save_to_DB the cursor is the index of
\* the first record not yet eligible to flush.
C3_Original ==
    last.op = "save" => lastdbindex = FirstNotEligible(0)

\* C3 amended: a call of save_to_DB that committed at least one insertion and
\* met no failed insertion leaves the cursor at the first record not yet
\* eligible at or after the old cursor; every other call leaves the cursor
\* where it was.
C3_CursorAfterFlush ==
    last.op = "save"
      => IF last.committed /\ last.saved > 0 /\ last.errs = 0
         THEN lastdbindex = FirstNotEligible(last.prev)
         ELSE lastdbindex = last.prev

\* C3 witness: a flush has inserted records and stopped at a young,
\* incomplete record before the end of the log.
C3_Witness ==
    /\ last.op = "save"
    /\ last.committed
    /\ last.saved > 0
    /\ last.errs = 0
    /\ lastdbindex < Len(queries)
    /\ lastdbindex > last.prev

\* C4: the cursor never decreases, whatever the outcome of an import or flush.
C4_CursorMonotonic == [][lastdbindex' >= lastdbindex]_vars

\* C4 witness: a flush has moved the cursor after an earlier call had moved it.
C4_Witness ==
    /\ last.op = "save"
    /\ last.prev > 0
    /\ lastdbindex > last.prev

\* C5: the counters of the store are the numbers of rows (of blocked rows)
\* the flushes have inserted, and blocked never exceeds total.
C5_CountersMatchInsertions ==
    /\ dbcounters.total = hist.total
    /\ dbcounters.blocked = hist.blocked
    /\ dbcounters.blocked <= dbcounters.total

\* C6: an import leaves every record complete, with its row's id for marker,
\* and the cursor at the end of the log, also when a step failed; a flush
\* that finds no record appended since the import inserts nothing.
C6_ImportThenFlush ==
    /\ [](last.op = "import"
            => /\ lastdbindex = Len(queries)
               /\ \A i \in 1..Len(queries) :
                    /\ queries[i].complete
                    /\ queries[i].db # 0
                    /\ \E r \in rows : /\ r.id = queries[i].db
                                      /\ r.timestamp = queries[i].timestamp)
    /\ [][last'.op = "save" /\ Len(queries) = hist.imported
            => /\ last'.inserted = {}
               /\ last'.saved = 0
               /\ rows' = rows]_vars

\* C6 witness: a flush has run after an import that a failed step had ended
\* early, with a record imported and none appended.
C6_Witness ==
    /\ last.op = "save"
    /\ hist.imported >= 1
    /\ Len(queries) = hist.imported
    /\ hist.imported < Cardinality({ r \in rows :
                           /\ r.timestamp >= StartTime - maxlogage
                           /\ RowKept(r, StartTime) })

\* s and t hold the same elements, each as often
SameRecords(s, t) ==
    /\ Len(s) = Len(t)
    /\ \A i \in 1..Len(s) :
         Cardinality({ j \in 1..Len(s) : s[j] = s[i] })
           = Cardinality({ j \in 1..Len(t) : t[j] = s[i] })

C8_RetentionExact ==
    [][last'.op = "gc"
        => LET old == { r \in rows :
                          r.timestamp <= now - maxDBdays * SecondsPerDay }
           IN  /\ last'.committed
                    => rows' = rows \ old /\ last'.removed = Cardinality(old)
               /\ ~last'.committed => rows' = rows /\ last'.removed = 0
               /\ UNCHANGED << queries, domains, clients, forwarded, agg,
                               lastdbindex, dbcounters, ftl >>]_vars

\* C8 witness: a garbage collection has removed a row and left another.
C8_Witness ==
    /\ last.op = "gc"
    /\ last.committed
    /\ last.removed >= 1
    /\ rows # {}
    /\ queries # << >>

\* a row passes the validation of the import at time t
ValidRow(r, t) ==
    /\ r.timestamp >= MinTimestamp
    /\ r.timestamp <= t
    /\ r.type \in TYPE_A..(TYPE_MAX - 1)
    /\ r.status \in QUERY_UNKNOWN..QUERY_EXTERNAL_BLOCKED_NXRA
    /\ r.domain # Null
    /\ r.client # Null
    /\ r.status = QUERY_FORWARDED => r.forward # Null

\* the configuration has the import leave the row out
FilteredRow(r) ==
    \/ r.type = TYPE_AAAA /\ ~config.analyze_AAAA
    \/ config.ignore_localhost /\ r.client \in { "127.0.0.1", "::1" }

\* C9: after an import that scanned to the end, the log holds one record for
\* each selected row that is valid and not filtered out, none for another
\* row, and the counters count these rows only.
C9_InvalidRowsSkipped ==
    last.op = "import" /\ last.committed
      => LET kept == { r \in rows : /\ r.timestamp >= now - maxlogage
                                    /\ ValidRow(r, now)
                                    /\ ~FilteredRow(r) }
         IN  /\ Len(queries) = Cardinality(kept)
             /\ { queries[i].db : i \in 1..Len(queries) } = { r.id : r \in kept }
             /\ agg.unknown = Cardinality({ r \in kept : r.status = QUERY_UNKNOWN })
             /\ agg.blocked = Cardinality({ r \in kept : IsBlocked(r.status) })
             /\ agg.forwardedqueries
                  = Cardinality({ r \in kept : r.status = QUERY_FORWARDED })
             /\ agg.cached = Cardinality({ r \in kept : r.status = QUERY_CACHE })
             /\ \A t \in DOMAIN agg.overTime :
                  agg.overTime[t].total
                    = Cardinality({ r \in kept : r.timestamp \div 600 = t })
             /\ { d.name : d \in { domains[i] : i \in 1..Len(domains) } }
                  = { r.domain : r \in kept }
             /\ \A i \in 1..Len(domains) :
                  domains[i].blockedcount
                    = Cardinality({ r \in kept : /\ r.domain = domains[i].name
                                                 /\ IsBlocked(r.status) })
             /\ { c.name : c \in { clients[i] : i \in 1..Len(clients) } }
                  = { r.client : r \in kept }
             /\ \A i \in 1..Len(clients) :
                  clients[i].numQueriesARP
                    = Cardinality({ r \in kept : r.client = clients[i].name })
             /\ { f.name : f \in { forwarded[i] : i \in 1..Len(forwarded) } }
                  = { r.forward : r \in { x \in kept : x.status = QUERY_FORWARDED } }

\* C9 witness: an import has dropped an invalid row and imported a valid
\* row that comes after it in the scan.
C9_Witness ==
    /\ last.op = "import"
    /\ last.committed
    /\ \E r1, r2 \in rows :
         /\ r1.timestamp >= now - maxlogage
         /\ ~ValidRow(r1, now)
         /\ r1.id < r2.id
         /\ r1.timestamp <= r2.timestamp
         /\ \E i \in 1..Len(queries) : queries[i].db = r2.id

\* C10: an operation that met an SQLite error other than SQLITE_BUSY leaves
\* the flag database false; one that met only SQLITE_BUSY leaves it as it was.
C10_ErrorsDisable ==
    /\ last.fatal => ~database
    /\ last.busy /\ ~last.fatal => database

\* C11: a disable event alone does not end the scheduler: while the
\* process runs with the flag database false, DB_thread has not
\* returned, so that a next scheduled flush can re-open the store.
C11_SchedulerSurvivesDisable ==
    (phase = "run" /\ ~database) => dbpc # "exit"

\* C12: whenever delete_old_queries_in_DB has run, the flag database
\* is true on its return, whatever the outcome, also when the store
\* could not be opened.
C12_CollectorReenables == last.op = "gc" => database

\* C13: db_init applies the migration steps in ascending order from
\* the stored version on, each at most once; when the version read is
\* below 1 or a step fails it returns with the flag database false,
\* and it never ends the process; the flag is true on return only at
\* version 3, every needed step having succeeded.
C13_MigrationContract ==
    last.op = "init"
      => /\ phase # "crashed"
         /\ \A k \in 1..Len(last.steps) :
              last.steps[k] = MAX(1, last.prev) + k
         /\ last.prev < 1 /\ ftl.version = last.prev => ~database
         /\ ftl.version < 3 => ~database

\* C14: a flush, which runs between lock_shm and unlock_shm, makes no
\* outbound network call.
C14_NoNetworkUnderLock == last.op = "save" => last.curl = 0

\* after a flush: record i was, when the scan began, unpersisted, incomplete
\* and younger than the grace period
YoungAt(i) ==
    /\ ~At(queries, i).complete
    /\ At(queries, i).timestamp > now - GraceSeconds
    /\ At(queries, i).db = 0 \/ i \in last.inserted

\* C15: in one flush the scan stops at the first record from the
\* cursor on that is unpersisted, incomplete and younger than 2
\* seconds: neither it nor any record after it is inserted. Nothing
\* else stops a scan without insertion errors: a record it leaves
\* unsaved, though public, has such a young record at or before it,
\* so persisted records are passed over.
C15_ScanStopsAtYoung ==
    last.op = "save"
      => LET from == MAX(0, last.prev)
             scanned == from..(Len(queries) - 1)
         IN  /\ \A j \in scanned :
                   YoungAt(j) => \A i \in last.inserted : i < j
             /\ last.committed /\ last.errs = 0
                   => \A i \in scanned :
                        /\ i \notin last.inserted
                        /\ At(queries, i).db = 0
                        /\ ~IsPrivate(At(queries, i))
                        => \E j \in from..i : YoungAt(j)

\* C15 witness: a flush has passed over a persisted record, inserted the
\* record after it, stopped at a young incomplete record and left a complete,
\* unsaved record behind it.
C15_Witness ==
    /\ last.op = "save"
    /\ last.committed
    /\ \E p, i, j, k \in MAX(0, last.prev)..(Len(queries) - 1) :
         /\ p < i /\ i < j /\ j < k
         /\ At(queries, p).db # 0 /\ p \notin last.inserted
         /\ i \in last.inserted
         /\ YoungAt(j)
         /\ At(queries, k).complete
         /\ At(queries, k).db = 0
         /\ ~IsPrivate(At(queries, k))

\* C16: after a flush in which insertions have failed, the rows that
\* were inserted successfully are committed and their records keep
\* non-zero markers, and the cursor has not moved.
C16_PartialBatchCommitted ==
    last.op = "save" /\ last.errs > 0
      => /\ last.inserted # {} => last.committed
         /\ \A i \in last.inserted : At(queries, i).db # 0
         /\ lastdbindex = last.prev

\* C17: the import skips every row whose domain or client string is
\* empty: no record in memory after an import has a domain or client
\* string of zero length.
C17_EmptyStringsSkipped ==
    last.op = "import"
      => \A i \in 1..Len(queries) :
           /\ getDomainString(queries[i], domains) # ""
           /\ getClientIPString(queries[i], clients) # ""

\* C18: in a round of DB_thread, save_to_DB runs only from the state
\* in which DB_thread holds the lock of the log; the collector runs
\* only after the unlock that follows the flush, the hook only after
\* the collector's turn, and neither while DB_thread holds the lock;
\* and after every flush that returns, whatever it met, the next step
\* of DB_thread is the unlock, which nothing holds up.
C18_CycleOrder ==
    /\ [](/\ last.op = "save" => shmlock = "db"
          /\ dbpc \in { "loop", "gc", "hook", "exit" } => shmlock = "none"
          /\ last.op \in { "gc", "nogc", "hook", "nohook" } => shmlock = "none")
    /\ [][/\ last'.op = "save"
              => dbpc = "locked" /\ shmlock = "db" /\ dbpc' = "saved"
          /\ dbpc = "saved" /\ dbpc' # "saved"
              => last'.op = "unlock" /\ dbpc' = "gc"
          /\ last'.op \in { "gc", "nogc" } => dbpc = "gc" /\ dbpc' = "hook"
          /\ last'.op \in { "hook", "nohook" }
              => dbpc = "hook" /\ dbpc' = "loop"
          /\ dbpc = "loop" /\ dbpc' # "loop"
              => dbpc' \in { "locked", "exit" }]_vars
    /\ [](dbpc = "saved" /\ phase = "run" => ENABLED DBUnlock)

\* C18 witness: a flush has failed and disabled persistence, the lock has
\* been released, and a requested collection has then run.
C18_Witness ==
    /\ dbpc = "hook"
    /\ last.op = "gc"
    /\ shmlock = "none"
    /\ hist.faults > 0
    /\ hist.imported = 0
    /\ Len(queries) > 0

\* C19: every operation on the store unlocks the mutex dblock exactly
\* as often as it locked it: each dbopen is followed by exactly one
\* dbclose.
C19_OneCloseForEachOpen == last.unlocks = last.locks

\* C20: the last-wake timestamp lastDBsave is always a multiple of
\* the flush interval.
C20_WakeAligned == lastDBsave % config.DBinterval = 0

\* C21: after a flush that committed, the marker of every record it inserted
\* is the id of a row of the store that holds that record's fields: the
\* marker equals the row id the store assigned.
C21_MarkerIsRowID ==
    last.op = "save" /\ last.committed
      => \A i \in last.inserted :
           \E r \in rows :
             /\ r.id = At(queries, i).db
             /\ [ k \in DOMAIN r \ { "id" } |-> r[k] ]
                  = BoundRow(At(queries, i), domains, clients, forwarded)

\* C22: once the import has run, every record at an index below the cursor
\* has a non-zero marker or was recorded at the strictest privacy level.
C22_NoneStrandedBehindCursor ==
    phase = "run"
      => \A i \in 0..(Len(queries) - 1) :
           i < lastdbindex
             => At(queries, i).db # 0 \/ IsPrivate(At(queries, i))

\* C23: when save_to_DB has returned, a record whose marker it set to a
\* non-zero value in that call has its row committed in the store.
C23_MarkerImpliesCommitted ==
    last.op = "save"
      => \A i \in last.inserted : At(queries, i).db # 0 => last.committed

====
